---- MODULE Spec2Model ----
(***************************************************************************)
(* A model of main.py of cloud-python, a read-only HTTP file browser.      *)
(*                                                                         *)
(* Representation of the program's data:                                   *)
(*   - a file name is the sequence of its dot-separated pieces             *)
(*     ("notes.md" is <<"notes", "md">>, ".." is <<"", "", "">>);          *)
(*   - a text that holds separators (a link, a URL path) is a sequence of  *)
(*     tokens, each a file name or the separator SEP;                      *)
(*   - a byte count is the sequence of its base-1000 digits, most          *)
(*     significant first (1500000 is <<1, 500, 0>>): the counts the        *)
(*     program meets exceed the machine integers of the model checker;     *)
(*   - a location of the file system is the sequence of names from "/".    *)
(***************************************************************************)
EXTENDS Integers, Sequences, FiniteSets, TLC

VARIABLES
    fs,           \* the file system: location -> node, for the existing locations
    pc,           \* position of the request inside serve and its callees
    request,      \* the HTTP request: [path: raw segments, download: query value]
    http_path,    \* serve's http_path, a parsed pathlib.Path
    fs_path,      \* serve's fs_path = DATA_PATH / http_path
    title,        \* serve's title
    breadcrumbs,  \* serve's breadcrumbs (None until generate_breadcrumbs ran)
    listing,      \* handle_dir's first dir_entries: the names os.listdir returned
    dir_entries,  \* handle_dir's second dir_entries: the DirEntry objects built
    fp,           \* DirEntry.from_path's frame for the entry being summarised
    response,     \* what the request ended with (None while in flight)
    trace,        \* the steps the request has taken, in order
    touched,      \* the locations the request has checked, listed, statted or read
    removed,      \* the locations a concurrent process removed, each with the pc then
    bytes_,       \* DirEntry.human_format's argument (the formatting specification)
    formatted     \* DirEntry.human_format's result (the formatting specification)

vars == <<fs, pc, request, http_path, fs_path, title, breadcrumbs, listing,
          dir_entries, fp, response, trace, touched, removed, bytes_, formatted>>

serverVars == <<fs, pc, request, http_path, fs_path, title, breadcrumbs, listing,
                dir_entries, fp, response, trace, touched, removed>>

None == [none |-> TRUE]

(***************************************************************************)
(* Bounds of the model.                                                    *)
(***************************************************************************)
\* the longest request path, in slash-separated segments
MaxSegments == 4
\* the longest byte count given to human_format, in base-1000 digits
MaxGroups == 7
\* how many leading base-1000 digits of such a byte count vary freely
MaxHead == 4

(***************************************************************************)
(* Names and texts.                                                        *)
(***************************************************************************)
SEP == <<"/">>
EMPTY == <<"">>
DOT == <<"", "">>
DOTDOT == <<"", "", "">>

RECURSIVE Repeat(_, _)
\* str * n
Repeat(text, n) == IF n <= 0 THEN <<>> ELSE text \o Repeat(text, n - 1)

RECURSIVE DropAll(_, _)
\* the sequence without its members in the set drop
DropAll(seq, drop) ==
    IF seq = <<>> THEN <<>>
    ELSE IF Head(seq) \in drop THEN DropAll(Tail(seq), drop)
    ELSE <<Head(seq)>> \o DropAll(Tail(seq), drop)

\* PurePath.suffix: name[i:] for the last dot i of the name when 0 < i < len(name) - 1
PathSuffix(name) ==
    LET n == Len(name)
    IN  IF /\ n >= 2
           /\ name[n] # ""
           /\ ~(n = 2 /\ name[1] = "")
        THEN "." \o name[n]
        ELSE ""

(***************************************************************************)
(* Byte counts and DirEntry.human_format.                                  *)
(***************************************************************************)
Zero == <<0>>

RECURSIVE Normalize(_)
\* a byte count without leading zero digits
Normalize(n) ==
    IF Len(n) > 1 /\ Head(n) = 0 THEN Normalize(Tail(n)) ELSE n

RECURSIVE AddCarry(_, _, _)
\* digit-wise sum of two counts of equal length, least significant digit last
AddCarry(a, b, carry) ==
    IF a = <<>> THEN IF carry = 0 THEN <<>> ELSE <<carry>>
    ELSE LET n == Len(a)
             s == a[n] + b[n] + carry
         IN  AddCarry(SubSeq(a, 1, n - 1), SubSeq(b, 1, n - 1), s \div 1000)
                 \o <<s % 1000>>

\* a + b on byte counts
Add(a, b) ==
    LET n  == IF Len(a) > Len(b) THEN Len(a) ELSE Len(b)
        pa == [i \in 1..(n - Len(a)) |-> 0] \o a
        pb == [i \in 1..(n - Len(b)) |-> 0] \o b
    IN  Normalize(AddCarry(pa, pb, 0))

Units == <<"B", "KB", "MB", "GB", "TB", "PB">>

\* whether every digit of the sequence is zero
AllZero(digits) == \A i \in 1..Len(digits) : digits[i] = 0

RECURSIVE Scale(_, _, _)
\* the while loop of human_format: whole and frac are the digits of
\* magnitude_value before and after the decimal point
Scale(whole, frac, magnitude) ==
    IF Len(whole) > 1
    THEN Scale(SubSeq(whole, 1, Len(whole) - 1),
               <<whole[Len(whole)]>> \o frac, magnitude + 1)
    ELSE [whole |-> whole[1], frac |-> frac, magnitude |-> magnitude]

\* f"{magnitude_value:.1f}": the value in tenths, rounded to nearest. A value
\* exactly halfway between two tenths is a binary fraction when it ends in
\* .25 or .75, and then rounds to the even tenth; any other halfway value is
\* no binary fraction, and the double holding it lies above or below it,
\* which rounding says.
Tenths(whole, frac, rounding) ==
    LET first == frac[1]
        digit == first \div 100
        rest  == first % 100
        tail  == SubSeq(frac, 2, Len(frac))
        down  == 10 * whole + digit
        up    == IF rest > 50 THEN TRUE
                 ELSE IF rest < 50 THEN FALSE
                 ELSE IF ~AllZero(tail) THEN TRUE
                 ELSE IF digit \in {2, 7} THEN down % 2 = 1
                 ELSE rounding = "above"
    IN  IF up THEN down + 1 ELSE down

IndexError == [ok |-> FALSE, value |-> "IndexError"]

\* the tail of human_format for an index the unit list has
FormatScaled(s, rounding) ==
    IF s.magnitude = 0
    THEN [ok |-> TRUE, value |-> ToString(s.whole) \o " " \o Units[1]]
    ELSE LET t == Tenths(s.whole, s.frac, rounding)
         IN  [ok |-> TRUE,
              value |-> ToString(t \div 10) \o "." \o ToString(t % 10)
                            \o " " \o Units[s.magnitude + 1]]

\* human_format as the source has it. The source computes on doubles, the model
\* on the exact decimal digits: on the byte counts drawn below (FormatInputs)
\* every quotient is further from 1000 and from a halfway value than the error
\* of the doubles, or is exact, except at the halfway values Tenths tells apart.
human_format(count, rounding) ==
    LET s == Scale(count, <<>>, 0)
    IN  IF s.magnitude + 1 > Len(Units)
        THEN IndexError
        ELSE FormatScaled(s, rounding)

\* the digits a byte count is drawn from
GroupValues == {0, 1, 150, 250, 500, 949, 950, 999}

\* the byte counts the formatting specification draws from: up to MaxHead free
\* digits followed by zeros, up to MaxGroups digits in all
FormatInputs ==
    { Normalize(head \o [i \in 1..z |-> 0]) :
        head \in UNION { [1..n -> GroupValues] : n \in 1..MaxHead },
        z \in 0..(MaxGroups - 1) }


(***************************************************************************)
(* pathlib and the file system.                                            *)
(***************************************************************************)
srv == <<"srv">>
data == <<"data">>
etc == <<"etc">>
passwd == <<"passwd">>
docs == <<"docs">>
README_md == <<"README", "md">>

\* ROOT_DIR_NAME = "Files"
ROOT_DIR_NAME == <<"Files">>

\* the directory the server process runs in, which relative paths start from
CWD == <<srv>>

\* DATA_PATH = Path("data/")
DATA_PATH == [root |-> "", names |-> <<data>>]

\* the location DATA_PATH names
RootLocation == CWD \o DATA_PATH.names

RECURSIVE LeadingEmpty(_)
\* how many empty segments the raw path starts with
LeadingEmpty(raw) ==
    IF raw # <<>> /\ Head(raw) = EMPTY THEN 1 + LeadingEmpty(Tail(raw)) ELSE 0

\* Path(str): raw holds the segments between the slashes of the string. Empty
\* and "." segments are dropped, ".." segments are kept; a string that starts
\* with a slash is absolute, with root "//" for exactly two slashes.
ParsePath(raw) ==
    LET lead    == LeadingEmpty(raw)
        slashes == IF lead = Len(raw) THEN lead - 1 ELSE lead
    IN  [root  |-> IF slashes <= 0 THEN "" ELSE IF slashes = 2 THEN "//" ELSE "/",
         names |-> DropAll(raw, {EMPTY, DOT})]

\* Path.parts
PathParts(path) ==
    (IF path.root = "" THEN <<>> ELSE <<<<path.root>>>>) \o path.names

\* self / other: an absolute right operand replaces the left one
JoinPath(self, other) ==
    IF other.root # "" THEN other
    ELSE [root |-> self.root, names |-> self.names \o other.names]

\* path / name
ChildPath(path, name) == [root |-> path.root, names |-> Append(path.names, name)]

\* Path.name
PathName(path) ==
    IF path.names = <<>> THEN EMPTY ELSE path.names[Len(path.names)]

Parent(loc) == IF loc = <<>> THEN <<>> ELSE SubSeq(loc, 1, Len(loc) - 1)

IsPrefix(a, b) == Len(a) <= Len(b) /\ SubSeq(b, 1, Len(a)) = a

RECURSIVE Walk(_, _, _)
\* the kernel's path walk: every name is looked up in the directory reached so
\* far, ".." leads to its parent (the root is its own parent)
Walk(fsys, cur, names) ==
    IF cur \notin DOMAIN fsys THEN [err |-> "ENOENT", loc |-> cur]
    ELSE IF names = <<>> THEN [err |-> "", loc |-> cur]
    ELSE IF fsys[cur].kind # "dir" THEN [err |-> "ENOTDIR", loc |-> cur]
    ELSE Walk(fsys,
              IF Head(names) = DOTDOT THEN Parent(cur) ELSE Append(cur, Head(names)),
              Tail(names))

\* stat(path): the location a path names, or the error of the walk
Lookup(fsys, path) ==
    Walk(fsys, IF path.root = "" THEN CWD ELSE <<>>, path.names)

\* an existence check that lets every path through
ExistsUnchecked(fsys, path) == TRUE

\* Path.exists()
Exists(fsys, path) == Lookup(fsys, path).err = ""

\* Path.is_dir()
IsDirectory(fsys, path) ==
    LET r == Lookup(fsys, path) IN r.err = "" /\ fsys[r.loc].kind = "dir"

\* a filter that lets directories through too
IsFileOrDirectory(fsys, path) == Lookup(fsys, path).err = ""

\* Path.is_file()
IsFile(fsys, path) ==
    LET r == Lookup(fsys, path) IN r.err = "" /\ fsys[r.loc].kind = "file"

\* the names inside the directory at a location
ChildNames(fsys, loc) ==
    { p[Len(p)] : p \in { q \in DOMAIN fsys : Len(q) = Len(loc) + 1 /\ IsPrefix(loc, q) } }

RECURSIVE Orders(_)
\* the orders in which a directory scan may return a set of names
Orders(S) ==
    IF S = {} THEN {<<>>}
    ELSE UNION { { <<x>> \o rest : rest \in Orders(S \ {x}) } : x \in S }

Raise(error) == [ok |-> FALSE, error |-> error]

\* the exception a failed walk raises
WalkError(err) ==
    IF err = "ENOTDIR" THEN "NotADirectoryError" ELSE "FileNotFoundError"

\* a stat whose failure is swallowed and counts as no bytes
StatSizeOrZero(fsys, path) ==
    LET r == Lookup(fsys, path)
    IN  [ok |-> TRUE, value |-> IF r.err # "" THEN Zero ELSE fsys[r.loc].size]

\* Path.stat().st_size
StatSize(fsys, path) ==
    LET r == Lookup(fsys, path)
    IN  IF r.err # "" THEN Raise(WalkError(r.err))
        ELSE [ok |-> TRUE, value |-> fsys[r.loc].size]

\* Path.read_bytes(): the whole content of the file at the location
read_bytes(fsys, path) ==
    LET r == Lookup(fsys, path)
    IN  IF r.err # "" THEN Raise(WalkError(r.err))
        ELSE IF fsys[r.loc].kind = "dir" THEN Raise("IsADirectoryError")
        ELSE [ok |-> TRUE, value |-> [bytes |-> r.loc, length |-> fsys[r.loc].size]]

\* Path.read_text(): the content decoded, which fails on bytes that are no text
read_text(fsys, path) ==
    LET r == read_bytes(fsys, path)
    IN  IF ~r.ok THEN r
        ELSE IF ~fsys[r.value.bytes].utf8 THEN Raise("UnicodeDecodeError")
        ELSE [ok |-> TRUE, value |-> [text |-> r.value.bytes, length |-> r.value.length]]

(***************************************************************************)
(* generate_breadcrumbs.                                                   *)
(***************************************************************************)
RECURSIVE BreadcrumbLoopOffByOne(_, _)
\* the loop with amount_of_subdirs = len(parts) - i
BreadcrumbLoopOffByOne(parts, i) ==
    IF i >= Len(parts) THEN <<>>
    ELSE <<[name |-> parts[i + 1],
            link |-> Repeat(<<DOTDOT, SEP>>, Len(parts) - i)]>>
             \o BreadcrumbLoopOffByOne(parts, i + 1)

RECURSIVE BreadcrumbLoop(_, _)
\* the for loop of generate_breadcrumbs from index i on
BreadcrumbLoop(parts, i) ==
    IF i >= Len(parts) THEN <<>>
    ELSE LET amount_of_subdirs == Len(parts) - i - 1
         IN  <<[name |-> parts[i + 1],
                link |-> Repeat(<<DOTDOT, SEP>>, amount_of_subdirs)]>>
                 \o BreadcrumbLoop(parts, i + 1)

generate_breadcrumbs(path) ==
    <<[name |-> ROOT_DIR_NAME, link |-> <<SEP>>]>>
        \o BreadcrumbLoop(PathParts(path), 0)

(***************************************************************************)
(* The content the server is started on, and the requests it is sent.      *)
(***************************************************************************)
Dir == [kind |-> "dir", size |-> <<4, 96>>, utf8 |-> FALSE]
File(size, utf8) == [kind |-> "file", size |-> size, utf8 |-> utf8]

\* the file names the specifications draw from: every suffix handle_file names,
\* another suffix, an upper-case suffix, two dots, no suffix, a leading dot
FileNames ==
    { <<"readme", "txt">>, <<"style", "css">>, <<"index", "html">>, <<"app", "js">>,
      <<"main", "rs">>, <<"script", "py">>, <<"notes", "md">>, README_md,
      <<"data", "csv">>, <<"image", "png">>, <<"NOTES", "MD">>,
      <<"backup", "tar", "md">>, <<"Makefile">>, <<"", "md">> }

\* a tree with the file name f at four depths below the served root, and the
\* system's /etc/passwd outside of it
FileSystem(f) ==
    LET root == RootLocation
        tree == {
            <<<<>>,                                   Dir>>,
            <<<<etc>>,                                Dir>>,
            <<<<etc, passwd>>,                        File(<<2, 48>>, TRUE)>>,
            <<CWD,                                    Dir>>,
            <<root,                                   Dir>>,
            <<root \o <<f>>,                          File(<<5>>, TRUE)>>,
            <<root \o <<docs>>,                       Dir>>,
            <<root \o <<docs, f>>,                    File(<<5>>, FALSE)>>,
            <<root \o <<docs, docs>>,                 Dir>>,
            <<root \o <<docs, docs, f>>,              File(<<10>>, TRUE)>>,
            <<root \o <<docs, docs, etc>>,            Dir>>,
            <<root \o <<docs, docs, docs>>,           Dir>>,
            <<root \o <<docs, docs, docs, f>>,        File(<<20>>, TRUE)>>,
            <<root \o <<docs, etc>>,                  Dir>>,
            <<root \o <<docs, etc, passwd>>,          File(<<995>>, TRUE)>> }
    IN  [loc \in { e[1] : e \in tree } |-> (CHOOSE e \in tree : e[1] = loc)[2]]

\* the sequences over a set of segments of at most n segments
RECURSIVE SeqsUpTo(_, _)
SeqsUpTo(S, n) ==
    IF n = 0 THEN {<<>>}
    ELSE LET shorter == SeqsUpTo(S, n - 1)
         IN  shorter \cup { Append(q, x) : q \in { r \in shorter : Len(r) = n - 1 }, x \in S }

Some(v) == [none |-> FALSE, value |-> v]

\* the query parameter download: absent, present and empty, present with a value
DownloadValues == {None, Some(""), Some("1")}

\* every spelling of a request path: names, "..", "." and empty segments
Spellings(f) == SeqsUpTo({DOTDOT, DOT, EMPTY, etc, passwd, docs, f}, MaxSegments)

\* the request paths a directory listing links to: names only
PlainPaths(f) == SeqsUpTo({etc, passwd, docs, f}, MaxSegments)

ServerStart ==
    /\ pc = "serve"
    /\ http_path = None
    /\ fs_path = None
    /\ title = None
    /\ breadcrumbs = <<>>
    /\ listing = <<>>
    /\ dir_entries = <<>>
    /\ fp = None
    /\ response = None
    /\ trace = <<>>
    /\ touched = {}
    /\ removed = None

\* a server that handles one request, spelled in any way
Init ==
    /\ \E f \in {<<"readme", "txt">>, README_md} :
           /\ fs = FileSystem(f)
           /\ request \in [path : Spellings(f), download : {None, Some("")}]
    /\ ServerStart
    /\ bytes_ = Zero
    /\ formatted = None

\* a server that handles one request for a plainly spelled path, on every file
\* name and every value of the query parameter
InitFiles ==
    /\ \E f \in FileNames :
           /\ fs = FileSystem(f)
           /\ request \in [path : PlainPaths(f), download : DownloadValues]
    /\ ServerStart
    /\ bytes_ = Zero
    /\ formatted = None

\* a server that handles one request for a plainly spelled path while another
\* process removes a path
InitRace ==
    /\ \E f \in {<<"readme", "txt">>, README_md} :
           /\ fs = FileSystem(f)
           /\ request \in [path : PlainPaths(f), download : {None, Some("")}]
    /\ ServerStart
    /\ bytes_ = Zero
    /\ formatted = None

\* a call of DirEntry.human_format on a byte count, the server at rest
InitFormat ==
    /\ bytes_ \in { n \in FormatInputs : Len(n) <= MaxGroups }
    /\ formatted = None
    /\ fs = FileSystem(README_md)
    /\ request = [path |-> <<>>, download |-> None]
    /\ pc = "serve"
    /\ http_path = None
    /\ fs_path = None
    /\ title = None
    /\ breadcrumbs = <<>>
    /\ listing = <<>>
    /\ dir_entries = <<>>
    /\ fp = None
    /\ response = None
    /\ trace = <<>>
    /\ touched = {}
    /\ removed = None

(***************************************************************************)
(* serve.                                                                  *)
(***************************************************************************)
Fail(error) == [status |-> 500, error |-> error]

\* lines 58-64: title, download, fs_path and the existence check
Serve ==
    /\ pc = "serve"
    /\ LET path   == ParsePath(request.path)
           target == JoinPath(DATA_PATH, path)
           found  == Lookup(fs, target)
       IN  /\ http_path' = path
           /\ title' = IF path.root = "" /\ path.names = <<>>
                       THEN [text |-> ROOT_DIR_NAME]
                       ELSE [path |-> path]
           /\ fs_path' = target
           /\ touched' = touched \cup {found.loc}
           /\ IF ~Exists(fs, target)
              THEN /\ response' = [status |-> 404, detail |-> "File not found"]
                   /\ pc' = "done"
              ELSE /\ response' = response
                   /\ pc' = "breadcrumbs"
    /\ trace' = Append(trace, "exists")
    /\ UNCHANGED <<fs, request, breadcrumbs, listing, dir_entries, fp, removed,
                   bytes_, formatted>>

\* line 66
Breadcrumbs ==
    /\ pc = "breadcrumbs"
    /\ breadcrumbs' = generate_breadcrumbs(http_path)
    /\ pc' = "is_dir"
    /\ trace' = Append(trace, "breadcrumbs")
    /\ UNCHANGED <<fs, request, http_path, fs_path, title, listing, dir_entries, fp,
                   response, touched, removed, bytes_, formatted>>

\* line 68
IsDir ==
    /\ pc = "is_dir"
    /\ pc' = IF IsDirectory(fs, fs_path) THEN "handle_dir" ELSE "handle_file"
    /\ touched' = touched \cup {Lookup(fs, fs_path).loc}
    /\ trace' = Append(trace, "is_dir")
    /\ UNCHANGED <<fs, request, http_path, fs_path, title, breadcrumbs, listing,
                   dir_entries, fp, response, removed, bytes_, formatted>>

(***************************************************************************)
(* handle_file.                                                            *)
(***************************************************************************)
\* Response(content=...)
Response(content) == [status |-> 200, view |-> "Response", content |-> content]

\* templates.TemplateResponse(name, context)
TemplateResponse(name, context) == [status |-> 200, view |-> name, context |-> context]

\* markdown(text, extensions=["fenced_code"])
markdown(text) == [html |-> text]

\* [row for row in csv.reader(csv_text.split("\n"))]
csv_table(text) == [rows |-> text]

\* handle_file with the download branch after the suffix branches
handle_file_suffix_first(fsys, crumbs, download, path, ttl) ==
    LET suffix == PathSuffix(PathName(path))
        bytes  == read_bytes(fsys, path)
        text   == read_text(fsys, path)
    IN  IF suffix \in {".txt", ".css", ".html", ".js", ".rs", ".py"}
        THEN IF text.ok
             THEN TemplateResponse("text_file.html",
                      [title |-> ttl, breadcrumbs |-> crumbs, content |-> text.value])
             ELSE Fail(text.error)
        ELSE IF suffix = ".md"
        THEN IF text.ok
             THEN TemplateResponse("markdown_file.html",
                      [title |-> ttl, breadcrumbs |-> crumbs,
                       content |-> markdown(text.value)])
             ELSE Fail(text.error)
        ELSE IF suffix = ".csv"
        THEN IF text.ok
             THEN TemplateResponse("csv_file.html",
                      [title |-> ttl, breadcrumbs |-> crumbs,
                       table |-> csv_table(text.value)])
             ELSE Fail(text.error)
        ELSE IF bytes.ok THEN Response(bytes.value) ELSE Fail(bytes.error)

handle_file(fsys, crumbs, download, path, ttl) ==
    LET suffix == PathSuffix(PathName(path))
        bytes  == read_bytes(fsys, path)
        text   == read_text(fsys, path)
    IN  IF download
        THEN IF bytes.ok THEN Response(bytes.value) ELSE Fail(bytes.error)
        ELSE IF suffix \in {".txt", ".css", ".html", ".js", ".rs", ".py"}
        THEN IF text.ok
             THEN TemplateResponse("text_file.html",
                      [title |-> ttl, breadcrumbs |-> crumbs, content |-> text.value])
             ELSE Fail(text.error)
        ELSE IF suffix = ".md"
        THEN IF text.ok
             THEN TemplateResponse("markdown_file.html",
                      [title |-> ttl, breadcrumbs |-> crumbs,
                       content |-> markdown(text.value)])
             ELSE Fail(text.error)
        ELSE IF suffix = ".csv"
        THEN IF text.ok
             THEN TemplateResponse("csv_file.html",
                      [title |-> ttl, breadcrumbs |-> crumbs,
                       table |-> csv_table(text.value)])
             ELSE Fail(text.error)
        ELSE IF bytes.ok THEN Response(bytes.value) ELSE Fail(bytes.error)

\* lines 76-82 with line 60: download = download is not None
HandleFile ==
    /\ pc = "handle_file"
    /\ response' = handle_file(fs, breadcrumbs, request.download # None, fs_path, title)
    /\ touched' = touched \cup {Lookup(fs, fs_path).loc}
    /\ pc' = "done"
    /\ trace' = Append(trace, "read")
    /\ UNCHANGED <<fs, request, http_path, fs_path, title, breadcrumbs, listing,
                   dir_entries, fp, removed, bytes_, formatted>>

(***************************************************************************)
(* handle_dir and DirEntry.from_path.                                      *)
(***************************************************************************)
\* the request ends with an unhandled exception
Abort(error) ==
    /\ response' = Fail(error)
    /\ pc' = "done"

\* line 177: os.listdir(fs_path), in the order the system returns the names
ListDir ==
    /\ pc = "handle_dir"
    /\ LET found == Lookup(fs, fs_path)
       IN  /\ touched' = touched \cup {found.loc}
           /\ IF found.err # ""
              THEN Abort(WalkError(found.err)) /\ listing' = listing
              ELSE IF fs[found.loc].kind # "dir"
              THEN Abort("NotADirectoryError") /\ listing' = listing
              ELSE /\ listing' \in Orders(ChildNames(fs, found.loc))
                   /\ pc' = IF listing' = <<>> THEN "readme" ELSE "from_path"
                   /\ response' = response
    /\ trace' = Append(trace, "listdir")
    /\ UNCHANGED <<fs, request, http_path, fs_path, title, breadcrumbs, dir_entries,
                   fp, removed, bytes_, formatted>>

\* the child from_path is called on next: line 178's list comprehension
CurrentEntry == ChildPath(fs_path, listing[Len(dir_entries) + 1])

Frame(path, top, files, size) ==
    [path |-> path, top |-> top, files |-> files, size |-> size]

\* line 147: path.is_dir()
FromPath ==
    /\ pc = "from_path"
    /\ fp' = Frame(CurrentEntry, <<>>, <<>>, Zero)
    /\ pc' = IF IsDirectory(fs, CurrentEntry) THEN "glob" ELSE "stat"
    /\ touched' = touched \cup {Lookup(fs, CurrentEntry).loc}
    /\ trace' = Append(trace, "from_path")
    /\ UNCHANGED <<fs, request, http_path, fs_path, title, breadcrumbs, listing,
                   dir_entries, response, removed, bytes_, formatted>>

\* line 150: path.stat().st_size
StatEntry ==
    /\ pc = "stat"
    /\ LET st == StatSize(fs, fp.path)
       IN  /\ touched' = touched \cup {Lookup(fs, fp.path).loc}
           /\ IF st.ok
              THEN /\ fp' = [fp EXCEPT !.size = st.value]
                   /\ pc' = "format"
                   /\ response' = response
              ELSE Abort(st.error) /\ fp' = fp
    /\ trace' = Append(trace, "stat")
    /\ UNCHANGED <<fs, request, http_path, fs_path, title, breadcrumbs, listing,
                   dir_entries, removed, bytes_, formatted>>

\* what a scan of a directory that is no longer there does: pathlib up to 3.11
\* lets the error through, later versions take the directory as empty
ScanFailures == {"raise", "skip"}

\* line 148, path.glob("*/*"): the selector checks is_dir() and scans the entry
GlobScan ==
    /\ pc = "glob"
    /\ LET found == Lookup(fs, fp.path)
       IN  /\ touched' = touched \cup {found.loc}
           /\ IF found.err = "" /\ fs[found.loc].kind = "dir"
              THEN /\ \E order \in Orders(ChildNames(fs, found.loc)) :
                          fp' = [fp EXCEPT !.top =
                                    [i \in 1..Len(order) |->
                                        [name   |-> order[i],
                                         is_dir |-> fs[Append(found.loc, order[i])].kind = "dir"]]]
                   /\ pc' = "glob_child"
                   /\ response' = response
              ELSE /\ fp' = fp
                   /\ pc' = "format"
                   /\ response' = response
    /\ trace' = Append(trace, "glob")
    /\ UNCHANGED <<fs, request, http_path, fs_path, title, breadcrumbs, listing,
                   dir_entries, removed, bytes_, formatted>>

\* line 148, the first "*" of the pattern: the next child that was a directory
\* when scanned is scanned itself, and its children are the files to look at
GlobChild ==
    /\ pc = "glob_child"
    /\ IF fp.top = <<>>
       THEN /\ pc' = "format"
            /\ UNCHANGED <<fp, response, touched>>
       ELSE LET child == Head(fp.top)
                path  == ChildPath(fp.path, child.name)
                found == Lookup(fs, path)
            IN  IF ~child.is_dir
                THEN /\ fp' = [fp EXCEPT !.top = Tail(fp.top)]
                     /\ pc' = "glob_child"
                     /\ UNCHANGED <<response, touched>>
                ELSE /\ touched' = touched \cup {found.loc}
                     /\ IF found.err = "" /\ fs[found.loc].kind = "dir"
                        THEN /\ \E order \in Orders(ChildNames(fs, found.loc)) :
                                   fp' = [fp EXCEPT
                                            !.top = Tail(fp.top),
                                            !.files = [i \in 1..Len(order) |->
                                                          ChildPath(path, order[i])]]
                             /\ pc' = IF ChildNames(fs, found.loc) = {}
                                      THEN "glob_child" ELSE "is_file"
                             /\ response' = response
                        ELSE \E failure \in ScanFailures :
                                 IF failure = "raise"
                                 THEN Abort(WalkError(found.err)) /\ fp' = fp
                                 ELSE /\ fp' = [fp EXCEPT !.top = Tail(fp.top)]
                                      /\ pc' = "glob_child"
                                      /\ response' = response
    /\ trace' = Append(trace, "glob_child")
    /\ UNCHANGED <<fs, request, http_path, fs_path, title, breadcrumbs, listing,
                   dir_entries, removed, bytes_, formatted>>

\* line 148, the filter: file.is_file()
GlobIsFile ==
    /\ pc = "is_file"
    /\ touched' = touched \cup {Lookup(fs, Head(fp.files)).loc}
    /\ IF IsFile(fs, Head(fp.files))
       THEN /\ pc' = "stat_file"
            /\ fp' = fp
       ELSE /\ fp' = [fp EXCEPT !.files = Tail(fp.files)]
            /\ pc' = IF Tail(fp.files) = <<>> THEN "glob_child" ELSE "is_file"
    /\ trace' = Append(trace, "is_file")
    /\ UNCHANGED <<fs, request, http_path, fs_path, title, breadcrumbs, listing,
                   dir_entries, response, removed, bytes_, formatted>>

\* line 148, the summand: file.stat().st_size
GlobStatFile ==
    /\ pc = "stat_file"
    /\ LET st == StatSize(fs, Head(fp.files))
       IN  /\ touched' = touched \cup {Lookup(fs, Head(fp.files)).loc}
           /\ IF st.ok
              THEN /\ fp' = [fp EXCEPT !.size = Add(fp.size, st.value),
                                       !.files = Tail(fp.files)]
                   /\ pc' = IF Tail(fp.files) = <<>> THEN "glob_child" ELSE "is_file"
                   /\ response' = response
              ELSE Abort(st.error) /\ fp' = fp
    /\ trace' = Append(trace, "stat_file")
    /\ UNCHANGED <<fs, request, http_path, fs_path, title, breadcrumbs, listing,
                   dir_entries, removed, bytes_, formatted>>

\* line 153: DirEntry(name=path.name, path=path.name + "/", size=size)
DirEntry(path, size) ==
    [name |-> PathName(path), path |-> <<PathName(path), SEP>>, size |-> size]

\* lines 152-153: the size is formatted and the DirEntry built
FormatEntry ==
    /\ pc = "format"
    /\ \E rounding \in {"below", "above"} :
           LET size == human_format(fp.size, rounding)
           IN  IF size.ok
               THEN /\ dir_entries' = Append(dir_entries, DirEntry(fp.path, size.value))
                    /\ pc' = IF Len(dir_entries') = Len(listing)
                             THEN "readme" ELSE "from_path"
                    /\ response' = response
               ELSE Abort(size.value) /\ dir_entries' = dir_entries
    /\ fp' = None
    /\ trace' = Append(trace, "format")
    /\ UNCHANGED <<fs, request, http_path, fs_path, title, breadcrumbs, listing,
                   touched, removed, bytes_, formatted>>

\* lines 180-196: the optional README.md and the directory view
Readme ==
    /\ pc = "readme"
    /\ LET path == ChildPath(fs_path, README_md)
           text == read_text(fs, path)
       IN  /\ touched' = touched \cup {Lookup(fs, path).loc}
           /\ IF text.ok \/ text.error = "FileNotFoundError"
              THEN response' = TemplateResponse("directory.html",
                       [readme          |-> IF text.ok THEN Some(text.value) ELSE None,
                        dir_entries     |-> dir_entries,
                        empty_directory |-> Len(dir_entries) = 0,
                        title           |-> title,
                        breadcrumbs     |-> breadcrumbs])
              ELSE response' = Fail(text.error)
    /\ pc' = "done"
    /\ trace' = Append(trace, "readme")
    /\ UNCHANGED <<fs, request, http_path, fs_path, title, breadcrumbs, listing,
                   dir_entries, fp, removed, bytes_, formatted>>

(***************************************************************************)
(* A concurrent process that removes a path of the served tree.            *)
(***************************************************************************)
\* the locations left when loc and everything below it are removed
Without(fsys, loc) ==
    [p \in { q \in DOMAIN fsys : ~IsPrefix(loc, q) } |-> fsys[p]]

\* the requested location or one below it is removed while the request,
\* past its existence check, is in flight
Remove ==
    /\ pc \notin {"serve", "done"}
    /\ removed = None
    /\ \E loc \in DOMAIN fs :
           /\ IsPrefix(Lookup(fs, fs_path).loc, loc)
           /\ IsPrefix(RootLocation, loc)
           /\ fs' = Without(fs, loc)
           /\ removed' = [loc |-> loc, at |-> pc, read |-> trace]
    /\ UNCHANGED <<pc, request, http_path, fs_path, title, breadcrumbs, listing,
                   dir_entries, fp, response, trace, touched, bytes_, formatted>>

(***************************************************************************)
(* The specifications.                                                     *)
(***************************************************************************)
Next ==
    \/ Serve
    \/ Breadcrumbs
    \/ IsDir
    \/ HandleFile
    \/ ListDir
    \/ FromPath
    \/ StatEntry
    \/ GlobScan
    \/ GlobChild
    \/ GlobIsFile
    \/ GlobStatFile
    \/ FormatEntry
    \/ Readme

Spec == Init /\ [][Next]_vars

NextRace == Next \/ Remove

SpecRace == InitRace /\ [][NextRace]_vars

SpecFiles == InitFiles /\ [][Next]_vars

\* one call of DirEntry.human_format
HumanFormat ==
    /\ formatted = None
    /\ \E rounding \in {"below", "above"} :
           formatted' = human_format(bytes_, rounding)
    /\ UNCHANGED bytes_
    /\ UNCHANGED serverVars

NextFormat == HumanFormat

SpecFormat == InitFormat /\ [][NextFormat]_vars

(***************************************************************************)
(* What the properties below speak of.                                     *)
(***************************************************************************)
RECURSIVE Lexical(_, _)
\* the location a path names by its text alone: ".." removes the name before it
Lexical(cur, names) ==
    IF names = <<>> THEN cur
    ELSE Lexical(IF Head(names) = DOTDOT THEN Parent(cur) ELSE Append(cur, Head(names)),
                 Tail(names))

\* the location the request path joined to the root names
JoinedLocation ==
    LET joined == JoinPath(DATA_PATH, ParsePath(request.path))
    IN  Lexical(IF joined.root = "" THEN CWD ELSE <<>>, joined.names)

InsideRoot(loc) == IsPrefix(RootLocation, loc)

Done == pc = "done"

\* the request ended with a view of a directory or of a file
Served == Done /\ response.status = 200

RECURSIVE SplitOnSep(_, _)
\* the segments of a text between its separators; current is the segment begun
SplitOnSep(text, current) ==
    IF text = <<>> THEN <<current>>
    ELSE IF Head(text) = SEP THEN <<current>> \o SplitOnSep(Tail(text), EMPTY)
    ELSE SplitOnSep(Tail(text), Head(text))

RECURSIVE RemoveDotSegments(_, _)
\* RFC 3986, 5.2.4, on the segments of a path
RemoveDotSegments(input, output) ==
    IF input = <<>> THEN output
    ELSE LET seg  == Head(input)
             last == Len(input) = 1
             up   == IF output = <<>> THEN <<>> ELSE SubSeq(output, 1, Len(output) - 1)
         IN  IF seg = DOT
             THEN RemoveDotSegments(Tail(input), IF last THEN Append(output, EMPTY) ELSE output)
             ELSE IF seg = DOTDOT
             THEN RemoveDotSegments(Tail(input), IF last THEN Append(up, EMPTY) ELSE up)
             ELSE RemoveDotSegments(Tail(input), Append(output, seg))

\* the segments of the URL path of the page the request fetched
PageUrl == IF request.path = <<>> THEN <<EMPTY>> ELSE request.path

\* RFC 3986, 5.2.2: the URL path a link of the page leads to. An empty link is
\* the page itself, a link that starts with a separator replaces the path, any
\* other link replaces the last segment of the page's path.
FollowLink(page, link) ==
    IF link = <<>> THEN page
    ELSE IF Head(link) = SEP THEN RemoveDotSegments(SplitOnSep(Tail(link), EMPTY), <<>>)
    ELSE RemoveDotSegments(SubSeq(page, 1, Len(page) - 1) \o SplitOnSep(link, EMPTY), <<>>)

\* the names of the location a URL path stands for
UrlLocation(segments) == DropAll(segments, {EMPTY, DOT})

RECURSIVE SumSizes(_, _)
\* the sum of the sizes of a set of files
SumSizes(fsys, locs) ==
    IF locs = {} THEN Zero
    ELSE LET loc == CHOOSE l \in locs : TRUE
         IN  Add(fsys[loc].size, SumSizes(fsys, locs \ {loc}))

\* the regular files exactly depth levels below a location
FilesBelow(fsys, loc, depth) ==
    { q \in DOMAIN fsys :
        Len(q) = Len(loc) + depth /\ IsPrefix(loc, q) /\ fsys[q].kind = "file" }

\* the location of the entry from_path is summarising
EntryLocation == Lookup(fs, fp.path).loc

PlainTextNames ==
    { <<"readme", "txt">>, <<"style", "css">>, <<"index", "html">>, <<"app", "js">>,
      <<"main", "rs">>, <<"script", "py">> }
MarkdownNames == { <<"notes", "md">>, README_md, <<"backup", "tar", "md">> }
CsvNames == { <<"data", "csv">> }

\* the template the claim's table gives a file name
ExpectedView(name) ==
    IF name \in PlainTextNames THEN "text_file.html"
    ELSE IF name \in MarkdownNames THEN "markdown_file.html"
    ELSE IF name \in CsvNames THEN "csv_file.html"
    ELSE "Response"

\* how many children of the listing from_path had been called on by then
Started(steps) == Len(SelectSeq(steps, LAMBDA step : step = "from_path"))

\* the location a plainly spelled request path names
RequestedLocation == RootLocation \o request.path

(***************************************************************************)
(* C1. serve never checks, lists or reads a location outside the root: a   *)
(* request whose joined path is neither the root nor below it ends         *)
(* Forbidden, and nothing of the file system is returned.                  *)
(***************************************************************************)
C1_NothingOutsideRoot ==
    /\ \A loc \in touched : InsideRoot(loc)
    /\ (Done /\ ~InsideRoot(JoinedLocation)) => response.status = 403

\* the content of /etc/passwd is returned for "../../etc/passwd"
C1_PasswdServed ==
    /\ Done
    /\ request.path = <<DOTDOT, DOTDOT, etc, passwd>>
    /\ response = Response([bytes |-> <<etc, passwd>>, length |-> <<2, 48>>])

(***************************************************************************)
(* C2. For a request path of n segments generate_breadcrumbs returns n + 1 *)
(* breadcrumbs: the root breadcrumb, of the fixed name and the link "/",   *)
(* then for segment i (from 0) the breadcrumb named after the segment      *)
(* whose link is n - i - 1 times "../", so the last link is empty.         *)
(***************************************************************************)
C2_BreadcrumbsOfPath ==
    breadcrumbs # <<>> =>
        LET segments == PathParts(http_path)
            n        == Len(segments)
        IN  /\ Len(breadcrumbs) = n + 1
            /\ breadcrumbs[1] = [name |-> ROOT_DIR_NAME, link |-> <<SEP>>]
            /\ \A i \in 0..(n - 1) :
                   LET crumb == breadcrumbs[i + 2]
                   IN  /\ crumb.name = segments[i + 1]
                       /\ Len(crumb.link) = 2 * (n - i - 1)
                       /\ \A k \in 1..Len(crumb.link) :
                              crumb.link[k] = IF k % 2 = 1 THEN DOTDOT ELSE SEP
            /\ n > 0 => breadcrumbs[n + 1].link = <<>>

\* breadcrumbs were built for a path of three segments
C2_ThreeSegments ==
    /\ Len(breadcrumbs) = 4
    /\ PathParts(http_path) = <<docs, docs, docs>>
    /\ breadcrumbs[2].link = <<DOTDOT, SEP, DOTDOT, SEP>>

(***************************************************************************)
(* C3. On every served page, reached at the request path s0/.../s(n-1),    *)
(* the link of the breadcrumb of segment i, followed from the URL of the   *)
(* page, leads to /s0/.../si.                                              *)
(***************************************************************************)
C3_BreadcrumbLinksLead ==
    (Served /\ breadcrumbs # <<>>) =>
        LET segments == PathParts(http_path)
        IN  \A i \in 0..(Len(segments) - 1) :
                UrlLocation(FollowLink(PageUrl, breadcrumbs[i + 2].link))
                    = SubSeq(segments, 1, i + 1)

(***************************************************************************)
(* C4. human_format divides by 1000 while the value is at least 1000,      *)
(* renders bytes without decimals and every other unit with one decimal:   *)
(* 0 is "0 B", 999 is "999 B", 1000 is "1.0 KB", 1500000 is "1.5 MB" and   *)
(* 999999999999 is "1.0 TB".                                               *)
(***************************************************************************)
C4_FormatExamples ==
    formatted # None =>
        /\ bytes_ = <<0>> => formatted.value = "0 B"
        /\ bytes_ = <<999>> => formatted.value = "999 B"
        /\ bytes_ = <<1, 0>> => formatted.value = "1.0 KB"
        /\ bytes_ = <<1, 500, 0>> => formatted.value = "1.5 MB"
        /\ bytes_ = <<999, 999, 999, 999>> => formatted.value = "1.0 TB"

\* what the code renders 999999999999 as
C4_ThousandGigabytes ==
    /\ bytes_ = <<999, 999, 999, 999>>
    /\ formatted = [ok |-> TRUE, value |-> "1000.0 GB"]

(***************************************************************************)
(* C5. The size from_path computes for a directory is the sum of the       *)
(* lengths of exactly the regular files one level inside an immediate      *)
(* child directory of it; for a file it is the length of the file.         *)
(***************************************************************************)
C5_SizeOfGrandchildren ==
    pc = "format" =>
        fp.size = IF fs[EntryLocation].kind = "dir"
                  THEN SumSizes(fs, FilesBelow(fs, EntryLocation, 2))
                  ELSE fs[EntryLocation].size

\* the entry docs of the root: files of 5, 10 + 995 and 20 bytes lie one, two
\* and three levels below it, and 1005 is the size computed
C5_DocsSummed ==
    /\ pc = "format"
    /\ EntryLocation = RootLocation \o <<docs>>
    /\ FilesBelow(fs, EntryLocation, 1) # {}
    /\ FilesBelow(fs, EntryLocation, 3) # {}
    /\ Cardinality(FilesBelow(fs, EntryLocation, 2)) = 2
    /\ fp.size = <<1, 5>>

(***************************************************************************)
(* C6. For an existing file handle_file picks the rendering by the suffix  *)
(* of the file name when download is absent (.txt .css .html .js .rs .py:  *)
(* plain text, .md: markdown, .csv: csv, any other: the raw bytes), and    *)
(* returns the raw bytes, undecoded, whenever download is present.         *)
(***************************************************************************)
C6_RenderingBySuffix ==
    (Done /\ trace[Len(trace)] = "read") =>
        LET loc   == Lookup(fs, fs_path).loc
            name  == loc[Len(loc)]
            raw   == [bytes |-> loc, length |-> fs[loc].size]
            text  == [text |-> loc, length |-> fs[loc].size]
            view  == IF request.download # None THEN "Response" ELSE ExpectedView(name)
        IN  IF view = "Response"
            THEN response = [status |-> 200, view |-> "Response", content |-> raw]
            ELSE IF ~fs[loc].utf8
            THEN response = [status |-> 500, error |-> "UnicodeDecodeError"]
            ELSE /\ response.status = 200
                 /\ response.view = view
                 /\ view = "text_file.html" => response.context.content = text
                 /\ view = "markdown_file.html" => response.context.content = [html |-> text]
                 /\ view = "csv_file.html" => response.context.table = [rows |-> text]

\* a markdown file that is no text is downloaded as its raw bytes
C6_MarkdownDownloaded ==
    /\ Done
    /\ request = [path |-> <<docs, <<"notes", "md">>>>, download |-> Some("")]
    /\ response.status = 200
    /\ response.view = "Response"
    /\ ~fs[response.content.bytes].utf8

(***************************************************************************)
(* C7. The relative link of the DirEntry of a child is the child's name    *)
(* followed by a separator when the child is a directory, and the child's  *)
(* name alone when it is a file.                                           *)
(***************************************************************************)
C7_LinkOfEntry ==
    \A k \in 1..Len(dir_entries) :
        LET loc == Lookup(fs, ChildPath(fs_path, listing[k])).loc
        IN  dir_entries[k].path = IF fs[loc].kind = "dir"
                                  THEN <<listing[k], SEP>>
                                  ELSE <<listing[k]>>

(***************************************************************************)
(* C8. A request goes through the existence check, then the breadcrumbs,   *)
(* then the branch, and ends in one outcome: a path that does not exist    *)
(* ends in 404 at once, before breadcrumbs are built and with nothing      *)
(* listed or read; an existing directory takes the directory view, any     *)
(* other existing path the file view.                                      *)
(***************************************************************************)
C8_ResolveBreadcrumbsRender ==
    LET target == JoinPath(DATA_PATH, ParsePath(request.path))
        found  == Lookup(fs, target)
        order  == <<"exists", "breadcrumbs", "is_dir">>
    IN  /\ \A k \in 1..Len(trace) :
               IF k <= 3 THEN trace[k] = order[k] ELSE trace[k] \notin {"exists", "breadcrumbs", "is_dir"}
        /\ (breadcrumbs # <<>>) = (Len(trace) >= 2)
        /\ (response # None) = Done
        /\ Done =>
               IF found.err # ""
               THEN /\ response = [status |-> 404, detail |-> "File not found"]
                    /\ trace = <<"exists">>
                    /\ breadcrumbs = <<>>
                    /\ listing = <<>> /\ dir_entries = <<>>
               ELSE IF fs[found.loc].kind = "dir"
               THEN /\ trace[4] = "listdir"
                    /\ \A k \in 1..Len(trace) : trace[k] # "read"
                    /\ \/ response.status = 200 /\ response.view = "directory.html"
                       \/ response.status = 500
               ELSE /\ trace = <<"exists", "breadcrumbs", "is_dir", "read">>
                    /\ \/ response.status = 200 /\ response.view # "directory.html"
                       \/ response.status = 500

\* a request for a path that does not exist has ended
C8_NotFound ==
    /\ Done
    /\ response.status = 404
    /\ trace = <<"exists">>
    /\ breadcrumbs = <<>>

C10_FormatNeverFails ==
    formatted # None => formatted.ok

\* what the code does on 10^18
C10_IndexError ==
    /\ bytes_ = <<1, 0, 0, 0, 0, 0, 0>>
    /\ formatted = IndexError
====
